---------------------------- MODULE Spec2Model ----------------------------
(***************************************************************************)
(* A model of imord2: a persistent (copy-on-write) B-tree map.             *)
(*                                                                         *)
(* Nodes live in a heap (a function from node ids to node records); an     *)
(* Arc<Node> is a node id, and its strong count is the number of owners    *)
(* (child slots of heap nodes and tree handles) that hold the id.          *)
(* Arc::make_mut clones the node when that count is above one and mutates  *)
(* in place otherwise.  Sequences are 1-based here: position p of a        *)
(* sequence is index p-1 of the Rust Vec.                                  *)
(***************************************************************************)
EXTENDS Integers, Sequences, FiniteSets, TLC

VARIABLES heap, root, snap, cfg, map, ok, obs, script, ops, rd

vars == <<heap, root, snap, cfg, map, ok, obs, script, ops, rd>>

-----------------------------------------------------------------------------
(* Bounds of the model *)

MaxKey == 5
DeepKeys == 22
MaxDeepOps == 2
MaxStale == 1
SnapKeys == 7
MaxSnapOps == 2
MaxReadOps == 1

\* The keys of the free runs, and of the deep runs.
Keys == 1..MaxKey
DeepKeySet == 1..DeepKeys
AllKeys == Keys \cup DeepKeySet \cup 1..(SnapKeys + 1)

\* Values are opaque to the tree: two of them tell an overwrite from a no-op.
Vals == {1, 2}

\* max_degree: the smallest odd and the smallest even degree with min_key_value >= 1.
\* The degrees with one below those the trees are made for.
DegreesFromTwo == {2, 3, 4}

Degrees == {3, 4}

NULL == 0

-----------------------------------------------------------------------------
(* Vec helpers *)

InsertAt(s, p, x) == SubSeq(s, 1, p - 1) \o <<x>> \o SubSeq(s, p, Len(s))

RemoveAt(s, p) == SubSeq(s, 1, p - 1) \o SubSeq(s, p + 1, Len(s))

RECURSIVE SumSeq(_)
SumSeq(s) == IF s = <<>> THEN 0 ELSE Head(s) + SumSeq(Tail(s))

Min2(a, b) == IF a <= b THEN a ELSE b

Max2(a, b) == IF a >= b THEN a ELSE b

None == <<>>

\* let v = ...; the value is computed once and used by F.
With(v, F(_)) == F(v)

Some(x) == <<x>>

-----------------------------------------------------------------------------
(* BTreeConfig *)

min_children(M) == (M + 1) \div 2

max_key_value(M) == M - 1

min_key_value(M) == min_children(M) - 1

node_under_size(M, n) == n < min_key_value(M)

node_at_min_size(M, n) == n <= min_key_value(M)

node_should_split(M, n) == n > max_key_value(M)

-----------------------------------------------------------------------------
(* Node, Arc *)

is_leaf(node) == node.children = <<>>

\* A faulty new_with_key_values whose count is one too many.
new_with_key_values_overcount(h, key_values, children) ==
    [key_values |-> key_values,
     children   |-> children,
     count      |-> Len(key_values) + 1
                      + SumSeq([i \in 1..Len(children) |-> h[children[i]].count])]

new_with_key_values(h, key_values, children) ==
    [key_values |-> key_values,
     children   |-> children,
     count      |-> Len(key_values)
                      + SumSeq([i \in 1..Len(children) |-> h[children[i]].count])]

\* The slice's binary search by key: found with the position of the key, or
\* not found with the position where the key would be inserted.
RECURSIVE bsearch(_, _, _, _)
bsearch(kvs, key, lo, hi) ==
    IF lo >= hi THEN [found |-> FALSE, idx |-> lo]
    ELSE LET mid == (lo + hi) \div 2
         IN IF kvs[mid][1] = key THEN [found |-> TRUE, idx |-> mid]
            ELSE IF kvs[mid][1] < key THEN bsearch(kvs, key, mid + 1, hi)
            ELSE bsearch(kvs, key, lo, mid)

binary_search(kvs, key) == bsearch(kvs, key, 1, Len(kvs) + 1)

\* Arc::new: the node is stored under the smallest unused id.
FreshId(h) == CHOOSE i \in 1..(Cardinality(DOMAIN h) + 1) :
                 /\ i \notin DOMAIN h
                 /\ \A j \in 1..(i - 1) : j \in DOMAIN h

Alloc(h, node) == With(FreshId(h), LAMBDA id : [h |-> (id :> node) @@ h, id |-> id])

\* Arc::strong_count: the owners of id are the child slots of the nodes of
\* the heap and the handles (owners) that hold it.
StrongCount(h, owners, id) ==
    SumSeq([i \in 1..Len(owners) |-> IF owners[i] = id THEN 1 ELSE 0])
    + Cardinality({pc \in UNION {{<<p, i>> : i \in 1..Len(h[p].children)} : p \in DOMAIN h} :
                      h[pc[1]].children[pc[2]] = id})

\* A faulty make_mut of a child that never clones: only the root is copied.
make_mut_child_in_place(h, owners, n, p) == [h |-> h, id |-> h[n].children[p]]

\* A faulty make_mut that never clones: a shared node is mutated in place.
make_mut_in_place(h, owners, id) == [h |-> h, id |-> id]

\* Arc::make_mut: with a single owner the node is mutated in place; otherwise
\* the node is cloned (Clone for Node: its own vectors, the children shared).
make_mut(h, owners, id) ==
    IF StrongCount(h, owners, id) > 1 THEN Alloc(h, h[id]) ELSE [h |-> h, id |-> id]

\* Arc::make_mut(&mut self.children[p]) of node n.
make_mut_child(h, owners, n, p) ==
    With(make_mut(h, owners, h[n].children[p]),
         LAMBDA m : [h |-> [m.h EXCEPT ![n].children[p] = m.id], id |-> m.id])

-----------------------------------------------------------------------------
(* Node::insert *)

\* A faulty NotSplited that reports every insert as the insert of a new key.
NotSplited_always_new(h, is_new) ==
    [h |-> h, splited |-> FALSE, is_new |-> TRUE,
     new_k_v |-> <<>>, new_l |-> NULL, new_r |-> NULL]

NotSplited(h, is_new) ==
    [h |-> h, splited |-> FALSE, is_new |-> is_new,
     new_k_v |-> <<>>, new_l |-> NULL, new_r |-> NULL]

\* A faulty split that leaves the first entry of the right half out.
split_node_lossy(h, n, is_new, M) ==
    IF ~node_should_split(M, Len(h[n].key_values)) THEN NotSplited(h, is_new)
    ELSE
      LET kvs       == h[n].key_values
          split_off == Len(kvs) \div 2 + 1
          leaf == is_leaf(h[n])
          chs  == h[n].children
          h2 == [h EXCEPT ![n].key_values = <<>>, ![n].children = <<>>]
      IN With(Alloc(h2, new_with_key_values(h2, SubSeq(kvs, 1, split_off - 1),
                                            IF leaf THEN <<>> ELSE SubSeq(chs, 1, split_off))),
           LAMBDA l :
         With(Alloc(l.h, new_with_key_values(l.h, SubSeq(kvs, split_off + 2, Len(kvs)),
                                             IF leaf THEN <<>>
                                             ELSE SubSeq(chs, split_off + 1, Len(chs)))),
           LAMBDA r :
         [h |-> r.h, splited |-> TRUE, is_new |-> TRUE,
          new_k_v |-> kvs[split_off], new_l |-> l.id, new_r |-> r.id]))

\* A faulty split that moves the first entry up and leaves the left half
\* without entries.
split_node_uneven(h, n, is_new, M) ==
    IF ~node_should_split(M, Len(h[n].key_values)) THEN NotSplited(h, is_new)
    ELSE
      LET kvs  == h[n].key_values
          leaf == is_leaf(h[n])
          chs  == h[n].children
          h2 == [h EXCEPT ![n].key_values = <<>>, ![n].children = <<>>]
      IN With(Alloc(h2, new_with_key_values(h2, <<>>,
                                            IF leaf THEN <<>> ELSE SubSeq(chs, 1, 1))),
           LAMBDA l :
         With(Alloc(l.h, new_with_key_values(l.h, Tail(kvs),
                                             IF leaf THEN <<>> ELSE Tail(chs))),
           LAMBDA r :
         [h |-> r.h, splited |-> TRUE, is_new |-> TRUE,
          new_k_v |-> kvs[1], new_l |-> l.id, new_r |-> r.id]))

\* A faulty split that waits until the node holds two entries too many.
split_node_late(h, n, is_new, M) ==
    IF ~node_should_split(M, Len(h[n].key_values) - 1) THEN NotSplited(h, is_new)
    ELSE
      LET kvs       == h[n].key_values
          split_off == Len(kvs) \div 2 + 1
          leaf == is_leaf(h[n])
          chs  == h[n].children
          h2 == [h EXCEPT ![n].key_values = <<>>, ![n].children = <<>>]
      IN With(Alloc(h2, new_with_key_values(h2, SubSeq(kvs, 1, split_off - 1),
                                            IF leaf THEN <<>> ELSE SubSeq(chs, 1, split_off))),
           LAMBDA l :
         With(Alloc(l.h, new_with_key_values(l.h, SubSeq(kvs, split_off + 1, Len(kvs)),
                                             IF leaf THEN <<>>
                                             ELSE SubSeq(chs, split_off + 1, Len(chs)))),
           LAMBDA r :
         [h |-> r.h, splited |-> TRUE, is_new |-> TRUE,
          new_k_v |-> kvs[split_off], new_l |-> l.id, new_r |-> r.id]))

\* The tail of Node::insert: the split of node n when it holds too many entries.
split_node(h, n, is_new, M) ==
    IF ~node_should_split(M, Len(h[n].key_values)) THEN NotSplited(h, is_new)
    ELSE
      LET kvs       == h[n].key_values
          split_at  == Len(kvs) \div 2
          split_off == split_at + 1
          right_key_values == SubSeq(kvs, split_off + 1, Len(kvs))
          root_key_value   == kvs[split_off]
          left_key_values  == SubSeq(kvs, 1, split_off - 1)
          h1 == [h EXCEPT ![n].key_values = <<>>]
          leaf == is_leaf(h1[n])
          chs == h1[n].children
          left_children  == IF leaf THEN <<>> ELSE SubSeq(chs, 1, split_off)
          right_children == IF leaf THEN <<>> ELSE SubSeq(chs, split_off + 1, Len(chs))
          h2 == IF leaf THEN h1 ELSE [h1 EXCEPT ![n].children = <<>>]
      IN With(Alloc(h2, new_with_key_values(h2, left_key_values, left_children)),
           LAMBDA l :
         With(Alloc(l.h, new_with_key_values(l.h, right_key_values, right_children)),
           LAMBDA r :
         [h |-> r.h, splited |-> TRUE, is_new |-> TRUE,
          new_k_v |-> root_key_value, new_l |-> l.id, new_r |-> r.id]))

RECURSIVE node_insert(_, _, _, _, _, _)
\* u is the node's state where the match of lines 18-62 ends: may_split is
\* FALSE where the code has returned NotSplited from inside the match.
node_insert(h, owners, n, key, value, M) ==
    With(binary_search(h[n].key_values, key), LAMBDA bs :
      IF bs.found
      THEN NotSplited([h EXCEPT ![n].key_values[bs.idx] = <<key, value>>], FALSE)
      ELSE With(IF is_leaf(h[n])
                THEN [h |-> [h EXCEPT ![n].key_values = InsertAt(@, bs.idx, <<key, value>>),
                                      ![n].count = @ + 1],
                      is_new |-> TRUE, may_split |-> TRUE]
                ELSE With(make_mut_child(h, owners, n, bs.idx), LAMBDA m :
                     With(node_insert(m.h, owners, m.id, key, value, M), LAMBDA r :
                       IF ~r.splited
                       THEN [h |-> IF r.is_new THEN [r.h EXCEPT ![n].count = @ + 1] ELSE r.h,
                             is_new |-> r.is_new, may_split |-> FALSE]
                       ELSE [h |-> [r.h EXCEPT ![n].count = @ + 1,
                                               ![n].key_values = InsertAt(@, bs.idx, r.new_k_v),
                                               ![n].children =
                                                   InsertAt([@ EXCEPT ![bs.idx] = r.new_l],
                                                            bs.idx + 1, r.new_r)],
                             is_new |-> TRUE, may_split |-> TRUE])),
                LAMBDA u : IF u.may_split THEN split_node(u.h, n, TRUE, M)
                           ELSE NotSplited(u.h, u.is_new)))

-----------------------------------------------------------------------------
(* Node::rebalance, Node::take_right_most, Node::delete_by_key.
   ok = FALSE records a panic (an unwrap of None, an index out of range, an
   unsigned subtraction below zero). *)

\* A faulty merge that drops the separator instead of moving it down.
rebalance_merge_lossy(h, n, kv_idx) ==
    LET left_child  == h[h[n].children[kv_idx]]
        right_child == h[h[n].children[kv_idx + 1]]
    IN With(Alloc(h, new_with_key_values(h, left_child.key_values \o right_child.key_values,
                                         left_child.children \o right_child.children)),
            LAMBDA a :
              [a.h EXCEPT ![n].key_values = RemoveAt(@, kv_idx),
                          ![n].children = RemoveAt([@ EXCEPT ![kv_idx] = a.id], kv_idx + 1)])

\* A faulty merge that keeps the right sibling whole, as the last child of
\* the merged node.
rebalance_merge_nested(h, n, kv_idx) ==
    LET left_child == h[h[n].children[kv_idx]]
        right_id   == h[n].children[kv_idx + 1]
    IN With(Alloc(h, new_with_key_values(h, Append(left_child.key_values,
                                                   h[n].key_values[kv_idx]),
                                         Append(left_child.children, right_id))),
            LAMBDA a :
              [a.h EXCEPT ![n].key_values = RemoveAt(@, kv_idx),
                          ![n].children = RemoveAt([@ EXCEPT ![kv_idx] = a.id], kv_idx + 1)])

\* A faulty merge that puts the right sibling's entries before the left's.
rebalance_merge_reversed(h, n, kv_idx) ==
    LET left_child  == h[h[n].children[kv_idx]]
        right_child == h[h[n].children[kv_idx + 1]]
        new_child_key_values ==
            right_child.key_values \o <<h[n].key_values[kv_idx]>> \o left_child.key_values
        new_children == right_child.children \o left_child.children
    IN With(Alloc(h, new_with_key_values(h, new_child_key_values, new_children)),
            LAMBDA a :
              [a.h EXCEPT ![n].key_values = RemoveAt(@, kv_idx),
                          ![n].children = RemoveAt([@ EXCEPT ![kv_idx] = a.id], kv_idx + 1)])

\* The merge branch of rebalance: the two children around separator kv_idx of
\* node n become one fresh node.
rebalance_merge(h, n, kv_idx) ==
    LET left_child  == h[h[n].children[kv_idx]]
        right_child == h[h[n].children[kv_idx + 1]]
        new_child_key_values ==
            left_child.key_values \o <<h[n].key_values[kv_idx]>> \o right_child.key_values
        new_children == left_child.children \o right_child.children
    IN With(Alloc(h, new_with_key_values(h, new_child_key_values, new_children)),
            LAMBDA a :
              [a.h EXCEPT ![n].key_values = RemoveAt(@, kv_idx),
                          ![n].children = RemoveAt([@ EXCEPT ![kv_idx] = a.id], kv_idx + 1)])

\* A faulty rotate left that moves the right sibling's first entry up but
\* leaves the old separator out of the left child.
rebalance_rotate_left_lossy(h, n, kv_idx, child_is_leaf) ==
    LET left_child  == h[h[n].children[kv_idx]]
        right_child == h[h[n].children[kv_idx + 1]]
        new_left_children  == IF ~child_is_leaf
                              THEN Append(left_child.children, right_child.children[1])
                              ELSE <<>>
        new_right_children == IF ~child_is_leaf THEN Tail(right_child.children) ELSE <<>>
    IN With(Alloc(h, new_with_key_values(h, left_child.key_values, new_left_children)),
         LAMBDA l :
       With(Alloc(l.h, new_with_key_values(l.h, Tail(right_child.key_values),
                                           new_right_children)),
         LAMBDA r :
       [r.h EXCEPT ![n].children = [@ EXCEPT ![kv_idx] = l.id, ![kv_idx + 1] = r.id],
                   ![n].key_values[kv_idx] = right_child.key_values[1]]))

\* A faulty rotate left that takes the entry out of the right sibling in
\* place instead of building a new right sibling.
rebalance_rotate_left_in_place(h, n, kv_idx, child_is_leaf) ==
    LET left_child  == h[h[n].children[kv_idx]]
        right_id    == h[n].children[kv_idx + 1]
        right_child == h[right_id]
        new_left_key_values == Append(left_child.key_values, h[n].key_values[kv_idx])
        new_left_children   == IF ~child_is_leaf
                               THEN Append(left_child.children, right_child.children[1])
                               ELSE <<>>
    IN With(Alloc(h, new_with_key_values(h, new_left_key_values, new_left_children)),
         LAMBDA l :
       [l.h EXCEPT ![n].children[kv_idx] = l.id,
                   ![n].key_values[kv_idx] = right_child.key_values[1],
                   ![right_id] = new_with_key_values(l.h, Tail(right_child.key_values),
                                     IF ~child_is_leaf THEN Tail(right_child.children)
                                     ELSE <<>>)])

\* A faulty rotate left whose new left sibling keeps the count of the old one.
rebalance_rotate_left_stale_count(h, n, kv_idx, child_is_leaf) ==
    LET left_child  == h[h[n].children[kv_idx]]
        right_child == h[h[n].children[kv_idx + 1]]
        new_left_children  == IF ~child_is_leaf
                              THEN Append(left_child.children, right_child.children[1])
                              ELSE <<>>
        new_right_children == IF ~child_is_leaf THEN Tail(right_child.children) ELSE <<>>
    IN With(Alloc(h, [key_values |-> Append(left_child.key_values, h[n].key_values[kv_idx]),
                      children |-> new_left_children,
                      count |-> left_child.count]),
         LAMBDA l :
       With(Alloc(l.h, new_with_key_values(l.h, Tail(right_child.key_values),
                                           new_right_children)),
         LAMBDA r :
       [r.h EXCEPT ![n].children = [@ EXCEPT ![kv_idx] = l.id, ![kv_idx + 1] = r.id],
                   ![n].key_values[kv_idx] = right_child.key_values[1]]))

\* Borrow from right, aka rotate left.
rebalance_rotate_left(h, n, kv_idx, child_is_leaf) ==
    LET left_child  == h[h[n].children[kv_idx]]
        right_child == h[h[n].children[kv_idx + 1]]
        new_left_key_values  == Append(left_child.key_values, h[n].key_values[kv_idx])
        new_right_key_values == Tail(right_child.key_values)
        new_left_children  == IF ~child_is_leaf
                              THEN Append(left_child.children, right_child.children[1])
                              ELSE <<>>
        new_right_children == IF ~child_is_leaf THEN Tail(right_child.children) ELSE <<>>
        key_value == right_child.key_values[1]
    IN With(Alloc(h, new_with_key_values(h, new_left_key_values, new_left_children)),
         LAMBDA l :
       With(Alloc(l.h, new_with_key_values(l.h, new_right_key_values, new_right_children)),
         LAMBDA r :
       [r.h EXCEPT ![n].children = [@ EXCEPT ![kv_idx] = l.id, ![kv_idx + 1] = r.id],
                   ![n].key_values[kv_idx] = key_value]))

\* A faulty rotate right that moves the left sibling's last entry into the
\* right child and leaves the separator as it was.
rebalance_rotate_right_past_separator(h, n, kv_idx, child_is_leaf) ==
    LET left_child  == h[h[n].children[kv_idx]]
        right_child == h[h[n].children[kv_idx + 1]]
        lkv == left_child.key_values
        lch == left_child.children
        new_left_children  == IF ~child_is_leaf THEN SubSeq(lch, 1, Len(lch) - 1) ELSE <<>>
        new_right_children == IF ~child_is_leaf
                              THEN <<lch[Len(lch)]>> \o right_child.children
                              ELSE <<>>
    IN With(Alloc(h, new_with_key_values(h, SubSeq(lkv, 1, Len(lkv) - 1), new_left_children)),
         LAMBDA l :
       With(Alloc(l.h, new_with_key_values(l.h, <<lkv[Len(lkv)]>> \o right_child.key_values,
                                           new_right_children)),
         LAMBDA r :
       [r.h EXCEPT ![n].children = [@ EXCEPT ![kv_idx] = l.id, ![kv_idx + 1] = r.id]]))

\* Borrow from left, aka rotate right.
rebalance_rotate_right(h, n, kv_idx, child_is_leaf) ==
    LET left_child  == h[h[n].children[kv_idx]]
        right_child == h[h[n].children[kv_idx + 1]]
        lkv == left_child.key_values
        new_left_key_values == SubSeq(lkv, 1, Len(lkv) - 1)
        new_root_key_value  == lkv[Len(lkv)]
        prev_key_value      == h[n].key_values[kv_idx]
        new_right_key_values == <<prev_key_value>> \o right_child.key_values
        lch == left_child.children
        new_left_children  == IF ~child_is_leaf THEN SubSeq(lch, 1, Len(lch) - 1) ELSE <<>>
        new_right_children == IF ~child_is_leaf
                              THEN <<lch[Len(lch)]>> \o right_child.children
                              ELSE <<>>
    IN With(Alloc(h, new_with_key_values(h, new_left_key_values, new_left_children)),
         LAMBDA l :
       With(Alloc(l.h, new_with_key_values(l.h, new_right_key_values, new_right_children)),
         LAMBDA r :
       [r.h EXCEPT ![n].key_values[kv_idx] = new_root_key_value,
                   ![n].children = [@ EXCEPT ![kv_idx] = l.id, ![kv_idx + 1] = r.id]]))

\* A faulty choice of branch that merges only when one of the two siblings is
\* under-size.
rebalance_case_under(h, n, kv_idx, M) ==
    LET l == Len(h[h[n].children[kv_idx]].key_values)
        r == Len(h[h[n].children[kv_idx + 1]].key_values)
    IN IF /\ node_at_min_size(M, l) /\ node_at_min_size(M, r)
          /\ (node_under_size(M, l) \/ node_under_size(M, r)) THEN "merge"
       ELSE IF node_under_size(M, l) THEN "rotate_left"
       ELSE IF node_under_size(M, r) THEN "rotate_right"
       ELSE "none"

\* Which branch rebalance takes on the pair around separator kv_idx.
rebalance_case(h, n, kv_idx, M) ==
    LET l == Len(h[h[n].children[kv_idx]].key_values)
        r == Len(h[h[n].children[kv_idx + 1]].key_values)
    IN IF node_at_min_size(M, l) /\ node_at_min_size(M, r) THEN "merge"
       ELSE IF node_under_size(M, l) THEN "rotate_left"
       ELSE IF node_under_size(M, r) THEN "rotate_right"
       ELSE "none"

rebalance(h, n, child_idx, M) ==
    LET chs == h[n].children
        child_is_leaf  == is_leaf(h[chs[child_idx]])
        last_child_idx == Len(chs)
        kv_idx == IF child_idx = last_child_idx THEN child_idx - 1 ELSE child_idx
    IN IF kv_idx < 1 THEN [h |-> h, ok |-> FALSE]
       ELSE With(rebalance_case(h, n, kv_idx, M), LAMBDA c :
              [h  |-> CASE c = "merge"        -> rebalance_merge(h, n, kv_idx)
                        [] c = "rotate_left"  -> rebalance_rotate_left(h, n, kv_idx, child_is_leaf)
                        [] c = "rotate_right" -> rebalance_rotate_right(h, n, kv_idx, child_is_leaf)
                        [] OTHER              -> h,
               ok |-> TRUE])

RECURSIVE take_right_most(_, _, _, _)
\* A faulty take_right_most that takes the first entry of the right-most
\* leaf instead of its last.
take_right_most_front(h, owners, n, M) ==
    IF is_leaf(h[n])
    THEN LET kvs == h[n].key_values
         IN IF kvs = <<>> \/ h[n].count = 0 THEN [h |-> h, kv |-> <<>>, ok |-> FALSE]
            ELSE [h  |-> [h EXCEPT ![n].count = @ - 1, ![n].key_values = Tail(kvs)],
                  kv |-> kvs[1],
                  ok |-> TRUE]
    ELSE LET child_idx == Len(h[n].children)
         IN With(make_mut_child(h, owners, n, child_idx), LAMBDA m :
            With(take_right_most(m.h, owners, m.id, M), LAMBDA t :
              IF ~t.ok THEN t
              ELSE With(rebalance(t.h, n, child_idx, M), LAMBDA b :
                     [h |-> b.h, kv |-> t.kv, ok |-> b.ok])))

take_right_most(h, owners, n, M) ==
    IF is_leaf(h[n])
    THEN LET kvs == h[n].key_values
         IN IF kvs = <<>> \/ h[n].count = 0 THEN [h |-> h, kv |-> <<>>, ok |-> FALSE]
            ELSE [h  |-> [h EXCEPT ![n].count = @ - 1,
                                   ![n].key_values = SubSeq(kvs, 1, Len(kvs) - 1)],
                  kv |-> kvs[Len(kvs)],
                  ok |-> TRUE]
    ELSE LET child_idx == Len(h[n].children)
         IN With(make_mut_child(h, owners, n, child_idx), LAMBDA m :
            With(take_right_most(m.h, owners, m.id, M), LAMBDA t :
              IF ~t.ok THEN t
              ELSE With(rebalance(t.h, n, child_idx, M), LAMBDA b :
                     [h |-> b.h, kv |-> t.kv, ok |-> b.ok])))

RECURSIVE delete_by_key(_, _, _, _, _)
\* A faulty delete_by_key that rebalances around the child it searched even
\* when the key was not found there.
delete_by_key_eager(h, owners, n, key, M) ==
    LET bs == binary_search(h[n].key_values, key)
    IN IF is_leaf(h[n])
       THEN IF bs.found
            THEN [h   |-> [h EXCEPT ![n].count = @ - 1,
                                    ![n].key_values = RemoveAt(@, bs.idx)],
                  ret |-> Some(h[n].key_values[bs.idx]),
                  ok  |-> h[n].count > 0]
            ELSE [h |-> h, ret |-> None, ok |-> TRUE]
       ELSE IF bs.found
       THEN LET prev_key_value == h[n].key_values[bs.idx]
            IN With(make_mut_child(h, owners, n, bs.idx), LAMBDA m :
               With(take_right_most(m.h, owners, m.id, M), LAMBDA t :
                 IF ~t.ok THEN [h |-> t.h, ret |-> None, ok |-> FALSE]
                 ELSE With(rebalance([t.h EXCEPT ![n].key_values[bs.idx] = t.kv],
                                     n, bs.idx, M),
                           LAMBDA b : [h |-> b.h, ret |-> Some(prev_key_value), ok |-> b.ok])))
       ELSE With(make_mut_child(h, owners, n, bs.idx), LAMBDA m :
            With(delete_by_key(m.h, owners, m.id, key, M), LAMBDA d :
              IF ~d.ok THEN d
              ELSE With(rebalance(IF d.ret = None THEN d.h
                                  ELSE [d.h EXCEPT ![n].count = @ - 1], n, bs.idx, M),
                        LAMBDA b : [h |-> b.h, ret |-> d.ret,
                                    ok |-> b.ok /\ d.h[n].count > 0])))

delete_by_key(h, owners, n, key, M) ==
    LET bs == binary_search(h[n].key_values, key)
    IN IF is_leaf(h[n])
       THEN IF bs.found
            THEN [h   |-> [h EXCEPT ![n].count = @ - 1,
                                    ![n].key_values = RemoveAt(@, bs.idx)],
                  ret |-> Some(h[n].key_values[bs.idx]),
                  ok  |-> h[n].count > 0]
            ELSE [h |-> h, ret |-> None, ok |-> TRUE]
       ELSE IF bs.found
       THEN LET prev_key_value == h[n].key_values[bs.idx]
            IN With(make_mut_child(h, owners, n, bs.idx), LAMBDA m :
               With(take_right_most(m.h, owners, m.id, M), LAMBDA t :
                 IF ~t.ok THEN [h |-> t.h, ret |-> None, ok |-> FALSE]
                 ELSE With(rebalance([t.h EXCEPT ![n].key_values[bs.idx] = t.kv],
                                     n, bs.idx, M),
                           LAMBDA b : [h |-> b.h, ret |-> Some(prev_key_value), ok |-> b.ok])))
       ELSE With(make_mut_child(h, owners, n, bs.idx), LAMBDA m :
            With(delete_by_key(m.h, owners, m.id, key, M), LAMBDA d :
              IF ~d.ok \/ d.ret = None THEN d
              ELSE With(rebalance([d.h EXCEPT ![n].count = @ - 1], n, bs.idx, M),
                        LAMBDA b : [h |-> b.h, ret |-> d.ret,
                                    ok |-> b.ok /\ d.h[n].count > 0])))

-----------------------------------------------------------------------------
(* Node::get_by_key, Node::get_by_offset *)

RECURSIVE get_by_key(_, _, _)
get_by_key(h, n, key) ==
    LET bs == binary_search(h[n].key_values, key)
    IN IF bs.found THEN Some(h[n].key_values[bs.idx][2])
       ELSE IF is_leaf(h[n]) THEN None
       ELSE get_by_key(h, h[n].children[bs.idx], key)

RECURSIVE get_by_offset(_, _, _)
RECURSIVE offset_walk(_, _, _, _)
\* The loop of get_by_offset over the entries of an internal node, at entry idx.
offset_walk(h, n, idx, relative_offset) ==
    IF idx > Len(h[n].key_values)
    THEN get_by_offset(h, h[n].children[Len(h[n].children)], relative_offset)
    ELSE LET left_child == h[n].children[idx]
         IN IF h[left_child].count > relative_offset
            THEN get_by_offset(h, left_child, relative_offset)
            ELSE IF relative_offset - h[left_child].count = 0
            THEN Some(h[n].key_values[idx])
            ELSE offset_walk(h, n, idx + 1, relative_offset - h[left_child].count - 1)

get_by_offset(h, n, offset) ==
    IF h[n].count <= offset THEN None
    ELSE IF is_leaf(h[n])
    THEN IF offset < Len(h[n].key_values) THEN Some(h[n].key_values[offset + 1]) ELSE None
    ELSE offset_walk(h, n, 1, offset)

-----------------------------------------------------------------------------
(* Node::find_key_range *)

\* A predicate is given by two thresholds: keys below lo are Left, keys from
\* lo and below hi are Match, keys from hi on are Right.
predicate(p, k) == IF k < p.lo THEN "Left" ELSE IF k < p.hi THEN "Match" ELSE "Right"

KeyRangeNone == [some |-> FALSE, start |-> 0, end |-> 0, n |-> 0]

KeyRangeSome(start, end, n) == [some |-> TRUE, start |-> start, end |-> end, n |-> n]

\* A faulty merge_into that keeps its own bounds.
merge_into_own_bounds(self, other) ==
    IF ~self.some THEN other
    ELSE IF ~other.some THEN self
    ELSE KeyRangeSome(self.start, self.end, self.n + other.n)

merge_into(self, other) ==
    IF ~self.some THEN other
    ELSE IF ~other.some THEN self
    ELSE KeyRangeSome(Min2(self.start, other.start), Max2(self.end, other.end),
                      self.n + other.n)

IsMatch(p, kv) == predicate(p, kv[1]) = "Match"

find_leaf(kvs, p) ==
    LET ms == SelectSeq(kvs, LAMBDA kv : IsMatch(p, kv))
    IN IF ms = <<>> THEN KeyRangeNone
       ELSE KeyRangeSome(ms[1][1], ms[Len(ms)][1], Len(ms))

RECURSIVE span_count(_, _, _, _)
\* The count loop over first_idx + 1 ..= last_idx.
span_count(h, n, idx, last_idx) ==
    IF idx > last_idx THEN 0
    ELSE h[h[n].children[idx]].count + 1 + span_count(h, n, idx + 1, last_idx)

RECURSIVE find_key_range(_, _, _)
RECURSIVE find_scan(_, _, _, _, _, _)
\* The scan loop of an internal node at entry index (extra = 0 stands for None).
find_scan(h, n, p, index, extra_child_to_check, matched_indexes) ==
    IF index > Len(h[n].key_values)
    THEN [result |-> KeyRangeNone, extra |-> extra_child_to_check,
          matched |-> matched_indexes]
    ELSE LET c == predicate(p, h[n].key_values[index][1])
         IN IF c = "Left"
            THEN find_scan(h, n, p, index + 1, index + 1, matched_indexes)
            ELSE IF c = "Match"
            THEN find_scan(h, n, p, index + 1, index + 1, Append(matched_indexes, index))
            ELSE [result |-> merge_into(KeyRangeNone,
                                        find_key_range(h, h[n].children[index], p)),
                  extra |-> 0, matched |-> matched_indexes]

find_key_range(h, n, p) ==
    IF is_leaf(h[n]) THEN find_leaf(h[n].key_values, p)
    ELSE
      With(find_scan(h, n, p, 1, 0, <<>>), LAMBDA sc :
        LET ms == sc.matched
            first_idx == ms[1]
            first_key == h[n].key_values[first_idx][1]
            last_idx  == ms[Len(ms)]
            last_key  == h[n].key_values[last_idx][1]
        IN With(IF ms = <<>> THEN sc.result
                ELSE merge_into(
                       merge_into(sc.result,
                                  find_key_range(h, h[n].children[first_idx], p)),
                       KeyRangeSome(first_key, first_key, 1)),
             LAMBDA r1 :
           With(IF Len(ms) >= 2
                THEN merge_into(r1, KeyRangeSome(first_key, last_key,
                                                 span_count(h, n, first_idx + 1, last_idx)))
                ELSE r1,
             LAMBDA r2 :
           IF sc.extra # 0
           THEN merge_into(r2, find_key_range(h, h[n].children[sc.extra], p))
           ELSE r2)))

-----------------------------------------------------------------------------
(* Dropping: a node whose last owner is gone is freed, and so are the nodes
   only it owned.  What stays is what the handles reach. *)

RECURSIVE Reach(_, _)
Reach(h, n) ==
    IF n = NULL THEN {}
    ELSE {n} \cup UNION {Reach(h, h[n].children[i]) : i \in 1..Len(h[n].children)}

Drop(h, owners) ==
    LET live == UNION {Reach(h, owners[i]) : i \in 1..Len(owners)}
    IN [id \in live |-> h[id]]

(* A node id stands for the address of the allocation, which no operation
   reads: between operations the heap is kept up to renaming, the nodes
   numbered in pre-order from the tree's root and then from the snapshot's. *)

RECURSIVE PreOrder(_, _)
RECURSIVE PreOrderAll(_, _)
PreOrderAll(h, ids) ==
    IF ids = <<>> THEN <<>> ELSE PreOrder(h, Head(ids)) \o PreOrderAll(h, Tail(ids))

PreOrder(h, n) == IF n = NULL THEN <<>> ELSE <<n>> \o PreOrderAll(h, h[n].children)

Renumber(h, rt, sn) ==
    LET first == PreOrder(h, rt)
        inFirst == {first[i] : i \in 1..Len(first)}
        ord == first \o SelectSeq(PreOrder(h, sn), LAMBDA id : id \notin inFirst)
        pos(id) == IF id = NULL THEN NULL ELSE CHOOSE i \in 1..Len(ord) : ord[i] = id
    IN [h    |-> [i \in 1..Len(ord) |->
                    [h[ord[i]] EXCEPT !.children =
                        [j \in 1..Len(h[ord[i]].children) |-> pos(h[ord[i]].children[j])]]],
        root |-> pos(rt),
        snap |-> pos(sn)]

-----------------------------------------------------------------------------
(* BTree *)

\* BTree::insert: the heap and the root after the call.
btree_insert(h, rt, sn, key, value, M) ==
    IF rt = NULL
    THEN With(Alloc(h, new_with_key_values(h, <<<<key, value>>>>, <<>>)), LAMBDA a :
           [h |-> Drop(a.h, <<a.id, sn>>), root |-> a.id])
    ELSE With(make_mut(h, <<rt, sn>>, rt), LAMBDA m :
         With(node_insert(m.h, <<m.id, sn>>, m.id, key, value, M), LAMBDA r :
           IF r.splited
           THEN With(Alloc(r.h, new_with_key_values(r.h, <<r.new_k_v>>,
                                                    <<r.new_l, r.new_r>>)),
                     LAMBDA a : [h |-> Drop(a.h, <<a.id, sn>>), root |-> a.id])
           ELSE [h |-> Drop(r.h, <<m.id, sn>>), root |-> m.id]))

btree_get_by_key(h, rt, key) == IF rt = NULL THEN None ELSE get_by_key(h, rt, key)

btree_get_by_offset(h, rt, offset) ==
    IF rt = NULL THEN None ELSE get_by_offset(h, rt, offset)

btree_find_key_range(h, rt, p) ==
    IF rt = NULL THEN KeyRangeNone ELSE find_key_range(h, rt, p)

\* The root after Node::delete_by_key on it: cleared when its count is zero,
\* replaced by its sole child when it holds no entry.
shrink_root(h, rt) ==
    IF h[rt].count = 0 THEN NULL
    ELSE IF h[rt].key_values = <<>> /\ ~is_leaf(h[rt]) THEN h[rt].children[1]
    ELSE rt

\* BTree::delete_by_key: the heap and the root after the call, and what it returns.
btree_delete_by_key(h, rt, sn, key, M) ==
    IF rt = NULL THEN [h |-> h, root |-> rt, ret |-> None, ok |-> TRUE]
    ELSE With(make_mut(h, <<rt, sn>>, rt), LAMBDA m :
         With(delete_by_key(m.h, <<m.id, sn>>, m.id, key, M), LAMBDA d :
           IF ~d.ok THEN [h |-> h, root |-> rt, ret |-> None, ok |-> FALSE]
           ELSE With(shrink_root(d.h, m.id), LAMBDA new_root :
                  [h |-> Drop(d.h, <<new_root, sn>>), root |-> new_root,
                   ret |-> d.ret, ok |-> TRUE])))

\* The count of the tree: the root's cached count.
btree_count(h, rt) == IF rt = NULL THEN 0 ELSE h[rt].count

-----------------------------------------------------------------------------
(* What a handle lets a caller observe *)

\* The monotonic predicates over a set of keys 1..n.
PredsOver(n) == {p \in [lo : 1..(n + 1), hi : 1..(n + 1)] : p.lo <= p.hi}

Observe(h, rt, n) ==
    [by_key    |-> [k \in 1..n |-> btree_get_by_key(h, rt, k)],
     by_offset |-> [i \in 0..n |-> btree_get_by_offset(h, rt, i)],
     range     |-> [p \in PredsOver(n) |-> btree_find_key_range(h, rt, p)]]

-----------------------------------------------------------------------------
(* The state machine *)

NoObs == <<>>

\* No read is in progress.
NoRead == <<>>

Init ==
    /\ heap = <<>>
    /\ root = NULL
    /\ snap = NULL
    /\ cfg \in Degrees
    /\ map = [k \in AllKeys |-> None]
    /\ ok = TRUE
    /\ obs = NoObs
    /\ script = <<>>
    /\ ops = 0
    /\ rd = NoRead

DoInsert(k, v) ==
    \E r \in {btree_insert(heap, root, snap, k, v, cfg)} :
    \E c \in {Renumber(r.h, r.root, snap)} :
       /\ heap' = c.h
       /\ root' = c.root
       /\ snap' = c.snap
       /\ map' = [map EXCEPT ![k] = Some(v)]
       /\ UNCHANGED <<cfg, obs, ok, rd>>

DoDelete(k) ==
    \E r \in {btree_delete_by_key(heap, root, snap, k, cfg)} :
    \E c \in {Renumber(r.h, r.root, snap)} :
       /\ heap' = c.h
       /\ root' = c.root
       /\ snap' = c.snap
       /\ map' = IF r.ok THEN [map EXCEPT ![k] = None] ELSE map
       /\ ok' = r.ok
       /\ UNCHANGED <<cfg, obs, rd>>

\* The number of entries stored under node n, by traversal.
RECURSIVE Size(_, _)
Size(h, n) ==
    IF n = NULL THEN 0
    ELSE Len(h[n].key_values)
         + SumSeq([i \in 1..Len(h[n].children) |-> Size(h, h[n].children[i])])

\* How far the cached count of a node of the tree is from its real size, at most.
Staleness == IF root = NULL THEN 0
             ELSE LET d == {heap[n].count - Size(heap, n) : n \in Reach(heap, root)}
                  IN CHOOSE x \in d : \A y \in d : y <= x

\* The model stops a run whose cached counts have drifted beyond MaxStale.
Running == script = <<>> /\ ok /\ Staleness <= MaxStale

Insert ==
    /\ Running
    /\ \E k \in Keys, v \in Vals : DoInsert(k, v)
    /\ UNCHANGED <<script, ops>>

Delete ==
    /\ Running
    /\ \E k \in Keys : DoDelete(k)
    /\ UNCHANGED <<script, ops>>

Next == Insert \/ Delete

Spec == Init /\ [][Next]_vars

\* Runs of inserts alone.
NextIns == Insert

SpecIns == Init /\ [][NextIns]_vars

-----------------------------------------------------------------------------
(* Deep trees: a scripted build (the keys 1 to DeepKeys in ascending order), then a bounded number of free operations. *)

Ascending(n) == [i \in 1..n |-> i]

InitDeep ==
    /\ heap = <<>>
    /\ root = NULL
    /\ snap = NULL
    /\ cfg \in Degrees
    /\ map = [k \in AllKeys |-> None]
    /\ ok = TRUE
    /\ obs = NoObs
    /\ script = Ascending(DeepKeys)
    /\ ops = 0
    /\ rd = NoRead

Build ==
    /\ script # <<>>
    /\ DoInsert(Head(script), 1)
    /\ script' = Tail(script)
    /\ UNCHANGED ops

DeepRunning == script = <<>> /\ ok /\ ops < MaxDeepOps

DeepInsert ==
    /\ DeepRunning
    /\ \E k \in DeepKeySet, v \in Vals : DoInsert(k, v)
    /\ ops' = ops + 1
    /\ UNCHANGED script

DeepDelete ==
    /\ DeepRunning
    /\ \E k \in DeepKeySet : DoDelete(k)
    /\ ops' = ops + 1
    /\ UNCHANGED script

NextDeep == Build \/ DeepInsert \/ DeepDelete

SpecDeep == InitDeep /\ [][NextDeep]_vars

-----------------------------------------------------------------------------
(* Snapshots: a scripted build (the keys 1 to n in ascending order, for any
   n up to SnapKeys), then the handle is duplicated, then a bounded number of
   operations on the original, over the keys built and one more. *)

InitSnap ==
    /\ heap = <<>>
    /\ root = NULL
    /\ snap = NULL
    /\ cfg \in Degrees
    /\ map = [k \in AllKeys |-> None]
    /\ ok = TRUE
    /\ obs = NoObs
    /\ script \in {Ascending(n) : n \in 0..SnapKeys}
    /\ ops = 0
    /\ rd = NoRead

\* Duplicating the handle (Clone of the root Arc): the snapshot shares the
\* root; what it lets a caller observe at this moment is recorded.
Snapshot ==
    /\ script = <<>>
    /\ obs = NoObs
    /\ LET n == Cardinality({k \in AllKeys : map[k] # None})
       IN obs' = [n |-> n, view |-> Observe(heap, root, n + 1)]
    /\ snap' = root
    /\ UNCHANGED <<heap, root, cfg, map, ok, script, ops, rd>>

SnapRunning == obs # NoObs /\ ok /\ ops < MaxSnapOps

SnapInsert ==
    /\ SnapRunning
    /\ \E k \in 1..(obs.n + 1), v \in Vals : DoInsert(k, v)
    /\ ops' = ops + 1
    /\ UNCHANGED script

SnapDelete ==
    /\ SnapRunning
    /\ \E k \in 1..(obs.n + 1) : DoDelete(k)
    /\ ops' = ops + 1
    /\ UNCHANGED script

NextSnap == Build \/ Snapshot \/ SnapInsert \/ SnapDelete

SpecSnap == InitSnap /\ [][NextSnap]_vars

-----------------------------------------------------------------------------
(* Draining: a scripted build (the keys 1 to n in ascending order, for any n
   up to SnapKeys), then the stored keys are deleted one by one, in any order. *)

DrainDelete ==
    /\ script = <<>>
    /\ ok
    /\ \E k \in {j \in AllKeys : map[j] # None} : DoDelete(k)
    /\ ops' = ops + 1
    /\ UNCHANGED script

NextDrain == Build \/ DrainDelete

SpecDrain == InitSnap /\ [][NextDrain]_vars

-----------------------------------------------------------------------------
(* Reads of the snapshot taken node by node, while the original handle is
   mutated.  A read in progress holds the nodes it has still to visit; each
   step visits one node as the heap holds it at that moment.  Node ids are
   addresses here and are not renamed. *)

\* One node of Node::get_by_key.
key_visit(h, n, key) ==
    LET bs == binary_search(h[n].key_values, key)
    IN IF bs.found THEN [done |-> TRUE, res |-> Some(h[n].key_values[bs.idx][2])]
       ELSE IF is_leaf(h[n]) THEN [done |-> TRUE, res |-> None]
       ELSE [done |-> FALSE, node |-> h[n].children[bs.idx], off |-> 0]

RECURSIVE offset_descend(_, _, _, _)
\* The loop of get_by_offset at entry idx, up to the child it descends into.
offset_descend(h, n, idx, relative_offset) ==
    IF idx > Len(h[n].key_values)
    THEN [done |-> FALSE, node |-> h[n].children[Len(h[n].children)],
          off |-> relative_offset]
    ELSE LET left_child == h[n].children[idx]
         IN IF h[left_child].count > relative_offset
            THEN [done |-> FALSE, node |-> left_child, off |-> relative_offset]
            ELSE IF relative_offset - h[left_child].count = 0
            THEN [done |-> TRUE, res |-> Some(h[n].key_values[idx])]
            ELSE offset_descend(h, n, idx + 1, relative_offset - h[left_child].count - 1)

\* One node of Node::get_by_offset.
offset_visit(h, n, offset) ==
    IF h[n].count <= offset THEN [done |-> TRUE, res |-> None]
    ELSE IF is_leaf(h[n])
    THEN [done |-> TRUE,
          res |-> IF offset < Len(h[n].key_values) THEN Some(h[n].key_values[offset + 1])
                  ELSE None]
    ELSE offset_descend(h, n, 1, offset)

RECURSIVE range_scan(_, _, _, _, _, _)
\* The scan loop of find_key_range up to the child it visits at a Right entry
\* (visit = 0 when it visits none).
range_scan(h, n, p, index, extra_child_to_check, matched_indexes) ==
    IF index > Len(h[n].key_values)
    THEN [visit |-> 0, extra |-> extra_child_to_check, matched |-> matched_indexes]
    ELSE LET c == predicate(p, h[n].key_values[index][1])
         IN IF c = "Left"
            THEN range_scan(h, n, p, index + 1, index + 1, matched_indexes)
            ELSE IF c = "Match"
            THEN range_scan(h, n, p, index + 1, index + 1, Append(matched_indexes, index))
            ELSE [visit |-> index, extra |-> 0, matched |-> matched_indexes]

\* One node of Node::find_key_range: what the node itself adds to the result,
\* and the children the call visits, in the order it visits them.
range_visit(h, n, p) ==
    IF is_leaf(h[n]) THEN [local |-> find_leaf(h[n].key_values, p), visits |-> <<>>]
    ELSE
      With(range_scan(h, n, p, 1, 0, <<>>), LAMBDA sc :
        LET ms == sc.matched
            first_idx == ms[1]
            first_key == h[n].key_values[first_idx][1]
            last_idx  == ms[Len(ms)]
            last_key  == h[n].key_values[last_idx][1]
        IN [local |->
              IF ms = <<>> THEN KeyRangeNone
              ELSE IF Len(ms) >= 2
              THEN merge_into(KeyRangeSome(first_key, first_key, 1),
                              KeyRangeSome(first_key, last_key,
                                           span_count(h, n, first_idx + 1, last_idx)))
              ELSE KeyRangeSome(first_key, first_key, 1),
            visits |->
              (IF sc.visit # 0 THEN <<h[n].children[sc.visit]>> ELSE <<>>)
              \o (IF ms # <<>> THEN <<h[n].children[first_idx]>> ELSE <<>>)
              \o (IF sc.extra # 0 THEN <<h[n].children[sc.extra]>> ELSE <<>>)])

\* The predicates of the range reads: those that match no key, one key,
\* three keys in a row, or every key.
ReadPreds(n) == {p \in PredsOver(n) : p.hi - p.lo \in {0, 1, 3, n}}

\* The reads a caller may start on the snapshot.
Reads == [kind : {"get_by_key"}, arg : 1..(obs.n + 1)]
         \cup [kind : {"get_by_offset"}, arg : 0..obs.n]
         \cup [kind : {"find_key_range"}, arg : ReadPreds(obs.n + 1)]

\* The read run at once, with nothing in between.
ReadAtOnce(h, sn, q) ==
    IF q.kind = "get_by_key" THEN btree_get_by_key(h, sn, q.arg)
    ELSE IF q.kind = "get_by_offset" THEN btree_get_by_offset(h, sn, q.arg)
    ELSE btree_find_key_range(h, sn, q.arg)

Dangling == "dangling"

InitRead ==
    /\ heap = <<>>
    /\ root = NULL
    /\ snap = NULL
    /\ cfg \in Degrees
    /\ map = [k \in AllKeys |-> None]
    /\ ok = TRUE
    /\ obs = NoObs
    /\ script = Ascending(SnapKeys)
    /\ ops = 0
    /\ rd = NoRead

ReadStart ==
    /\ obs # NoObs
    /\ rd = NoRead
    /\ \E q \in Reads :
          rd' = [kind |-> q.kind, arg |-> q.arg,
                 stack |-> IF snap = NULL THEN <<>>
                           ELSE <<[node |-> snap,
                                   off |-> IF q.kind = "get_by_offset" THEN q.arg ELSE 0]>>,
                 acc |-> IF q.kind = "find_key_range" THEN KeyRangeNone ELSE None,
                 want |-> ReadAtOnce(heap, snap, q),
                 during |-> FALSE]
    /\ UNCHANGED <<heap, root, snap, cfg, map, ok, obs, script, ops>>

\* The read visits the next node.  A node that was freed under the read is a
\* dangling reference.
ReadStep ==
    /\ rd # NoRead
    /\ rd.stack # <<>>
    /\ LET f == Head(rd.stack)
       IN IF f.node \notin DOMAIN heap
          THEN rd' = [rd EXCEPT !.stack = <<>>, !.acc = Dangling]
          ELSE IF rd.kind = "find_key_range"
          THEN \E v \in {range_visit(heap, f.node, rd.arg)} :
                  rd' = [rd EXCEPT
                           !.stack = [i \in 1..Len(v.visits) |->
                                         [node |-> v.visits[i], off |-> 0]]
                                     \o Tail(rd.stack),
                           !.acc = merge_into(rd.acc, v.local)]
          ELSE \E v \in {IF rd.kind = "get_by_key" THEN key_visit(heap, f.node, rd.arg)
                         ELSE offset_visit(heap, f.node, f.off)} :
                  rd' = IF v.done THEN [rd EXCEPT !.stack = <<>>, !.acc = v.res]
                        ELSE [rd EXCEPT !.stack = <<[node |-> v.node, off |-> v.off]>>]
    /\ UNCHANGED <<heap, root, snap, cfg, map, ok, obs, script, ops>>

ReadRunning == obs # NoObs /\ ok /\ ops < MaxReadOps

\* A read remembers that a mutation fell between two of its steps.
Interleaved == IF rd # NoRead /\ rd.stack # <<>>
               THEN [rd EXCEPT !.during = TRUE] ELSE rd

\* The inserts of the mutating handle write a value that no entry of the
\* snapshot holds.
ReadInsert ==
    /\ ReadRunning
    /\ \E k \in 1..(obs.n + 1), v \in Vals \ {1} :
       \E r \in {btree_insert(heap, root, snap, k, v, cfg)} :
          /\ heap' = r.h
          /\ root' = r.root
          /\ map' = [map EXCEPT ![k] = Some(v)]
    /\ ops' = ops + 1
    /\ rd' = Interleaved
    /\ UNCHANGED <<snap, cfg, ok, obs, script>>

ReadDelete ==
    /\ ReadRunning
    /\ \E k \in 1..(obs.n + 1) :
       \E r \in {btree_delete_by_key(heap, root, snap, k, cfg)} :
          /\ heap' = r.h
          /\ root' = r.root
          /\ map' = IF r.ok THEN [map EXCEPT ![k] = None] ELSE map
          /\ ok' = r.ok
    /\ ops' = ops + 1
    /\ rd' = Interleaved
    /\ UNCHANGED <<snap, cfg, obs, script>>

NextRead == Build \/ Snapshot \/ ReadStart \/ ReadStep \/ ReadInsert \/ ReadDelete

SpecRead == InitRead /\ [][NextRead]_vars

-----------------------------------------------------------------------------
(* The scenario of test_tree: the keys ScenarioKeys down to 1 are inserted
   with the values key * 100; then stored keys are deleted, the smallest or
   the largest at each step. *)

ScenarioDegree == 4
ScenarioKeys == 12

Descending(n) == [i \in 1..n |-> n + 1 - i]

InitTest ==
    /\ heap = <<>>
    /\ root = NULL
    /\ snap = NULL
    /\ cfg \in Degrees
    /\ map = [k \in AllKeys |-> None]
    /\ ok = TRUE
    /\ obs = NoObs
    /\ script = Descending(ScenarioKeys)
    /\ ops = 0
    /\ rd = NoRead

TestBuild ==
    /\ script # <<>>
    /\ DoInsert(Head(script), Head(script) * 100)
    /\ script' = Tail(script)
    /\ UNCHANGED ops

TestDelete ==
    /\ script = <<>>
    /\ ok
    /\ \E k \in {j \in AllKeys : map[j] # None} :
          /\ \/ \A j \in AllKeys : map[j] # None => k <= j
             \/ \A j \in AllKeys : map[j] # None => j <= k
          /\ DoDelete(k)
    /\ ops' = ops + 1
    /\ UNCHANGED script

NextTest == TestBuild \/ TestDelete

SpecTest == InitTest /\ [][NextTest]_vars

-----------------------------------------------------------------------------
(* Growth after a delete: a scripted build that leaves gaps among the small
   keys, then at most one delete_by_key of a stored key and inserts of the
   keys of the gaps, in any order. *)

GrowScript == <<2, 4, 6, 8, 9, 10, 11, 12, 13, 14, 15, 16, 17, 18>>

GapKeys == {1, 3, 5, 7}

InitGrow ==
    /\ heap = <<>>
    /\ root = NULL
    /\ snap = NULL
    /\ cfg \in Degrees
    /\ map = [k \in AllKeys |-> None]
    /\ ok = TRUE
    /\ obs = NoObs
    /\ script = GrowScript
    /\ ops = 0
    /\ rd = NoRead

GrowDelete ==
    /\ script = <<>>
    /\ ok
    /\ ops = 0
    /\ \E k \in {j \in AllKeys : map[j] # None} : DoDelete(k)
    /\ ops' = 1
    /\ UNCHANGED script

GrowInsert ==
    /\ script = <<>>
    /\ ok
    /\ \E k \in GapKeys : map[k] = None /\ DoInsert(k, 1)
    /\ UNCHANGED <<script, ops>>

NextGrow == Build \/ GrowDelete \/ GrowInsert

SpecGrow == InitGrow /\ [][NextGrow]_vars

-----------------------------------------------------------------------------
(* Views of the tree used to state the properties *)

\* The tree under node n as a value: entries, cached count, subtrees.
RECURSIVE TreeOf(_, _)
TreeOf(h, n) ==
    IF n = NULL THEN <<>>
    ELSE [key_values |-> h[n].key_values, count |-> h[n].count,
          children |-> [i \in 1..Len(h[n].children) |-> TreeOf(h, h[n].children[i])]]

\* The tree under node n without its values: keys, cached counts, subtrees.
RECURSIVE ShapeOf(_, _)
ShapeOf(h, n) ==
    IF n = NULL THEN <<>>
    ELSE [keys |-> [i \in 1..Len(h[n].key_values) |-> h[n].key_values[i][1]],
          count |-> h[n].count,
          children |-> [i \in 1..Len(h[n].children) |-> ShapeOf(h, h[n].children[i])]]

\* The stored keys according to the history of the run, in ascending order.
Present == {k \in AllKeys : map[k] # None}

SortedPresent ==
    [i \in 1..Cardinality(Present) |->
        CHOOSE k \in Present : Cardinality({j \in Present : j < k}) = i - 1]

Nodes == Reach(heap, root)

NonRootNodes == Nodes \ {root}

IsInternalRoot == root # NULL /\ ~is_leaf(heap[root])

RootKeys == IF root = NULL THEN {}
            ELSE {heap[root].key_values[i][1] : i \in 1..Len(heap[root].key_values)}

\* The height of the tree under node n (a leaf has height 1).
RECURSIVE Height(_, _)
Height(h, n) ==
    IF n = NULL THEN 0
    ELSE IF is_leaf(h[n]) THEN 1
    ELSE 1 + Height(h, h[n].children[1])

\* The predicates over all the keys of the model.
Preds == PredsOver(CHOOSE m \in AllKeys : \A k \in AllKeys : k <= m)

Matching(p) == {k \in Present : predicate(p, k) = "Match"}

MinOf(S) == CHOOSE x \in S : \A y \in S : x <= y

MaxOf(S) == CHOOSE x \in S : \A y \in S : x >= y

-----------------------------------------------------------------------------
(* Properties *)

\* C1: after every completed insert or delete_by_key, every node reachable
\* from the root has count = number of its entries + sum of its children's counts.
C1_CountInvariant ==
    \A n \in Nodes :
        heap[n].count = Len(heap[n].key_values)
                        + SumSeq([i \in 1..Len(heap[n].children) |->
                                     heap[heap[n].children[i]].count])

\* C2: for every max_degree, odd and even, after every completed insert or
\* delete_by_key every non-root node holds between min_key_value and
\* max_key_value entries.
C2_SizeInvariant ==
    \A n \in NonRootNodes :
        /\ min_key_value(cfg) <= Len(heap[n].key_values)
        /\ Len(heap[n].key_values) <= max_key_value(cfg)

C4_Refinement ==
    \A k \in Keys : btree_get_by_key(heap, root, k) = map[k]

\* C4's case: a separator has been deleted from an internal node (its cached
\* count still includes it), the tree has two levels or more, one key is
\* absent and another holds a value written over an earlier one.
C4_Witness ==
    /\ IsInternalRoot
    /\ Staleness >= 1
    /\ \E k \in Keys : map[k] = None /\ btree_get_by_key(heap, root, k) = None
    /\ \E k \in Keys : map[k] = Some(2) /\ btree_get_by_key(heap, root, k) = Some(2)

\* C5: after the handle is duplicated, whatever is done to the original, the
\* duplicate answers get_by_key, get_by_offset and find_key_range as it did
\* at the moment of duplication.
C5_SnapshotIsolation ==
    obs # NoObs => Observe(heap, snap, obs.n + 1) = obs.view

\* C5's case: the original has been mutated twice since the duplication, it
\* differs from the snapshot, and the two still share nodes.
C5_Witness ==
    /\ obs # NoObs
    /\ ops = 2
    /\ snap # NULL /\ ~is_leaf(heap[snap])
    /\ TreeOf(heap, root) # TreeOf(heap, snap)
    /\ Reach(heap, root) \cap Reach(heap, snap) # {}

\* C6: with c stored keys, get_by_offset(i) is the entry with the i-th
\* smallest key for every i in [0, c), and get_by_offset(c) is none.
C6_RankOrdering ==
    LET c == Cardinality(Present)
    IN /\ \A i \in 0..(c - 1) :
             btree_get_by_offset(heap, root, i)
               = Some(<<SortedPresent[i + 1], map[SortedPresent[i + 1]][1]>>)
       /\ btree_get_by_offset(heap, root, c) = None

\* C7: delete_by_key(k) on a tree that contains k returns (k, current value
\* of k) and decreases the root's count by exactly one.
C7_DeletePresent ==
    \A k \in Present :
        \A r \in {btree_delete_by_key(heap, root, snap, k, cfg)} :
           /\ r.ret = Some(<<k, map[k][1]>>)
           /\ btree_count(r.h, r.root) = btree_count(heap, root) - 1

\* C8: delete_by_key(k) on a tree that does not contain k returns none and
\* leaves the tree as it was: the same entries, the same counts, the same
\* shape, and the same answers to every read.
C8_DeleteAbsent ==
    \A k \in Keys \ Present :
        \A r \in {btree_delete_by_key(heap, root, snap, k, cfg)} :
           /\ r.ret = None
           /\ r.ok
           /\ TreeOf(r.h, r.root) = TreeOf(heap, root)
           /\ Observe(r.h, r.root, MaxKey) = Observe(heap, root, MaxKey)

\* C8's case: a tree of two levels with siblings at minimum size (a rebalance
\* would merge them), and an absent key whose search ends in a leaf.
C8_Witness ==
    /\ IsInternalRoot
    /\ \E i \in 1..Len(heap[root].key_values) : rebalance_case(heap, root, i, cfg) = "merge"
    /\ \E k \in Keys \ Present :
          /\ btree_delete_by_key(heap, root, snap, k, cfg).ret = None
          /\ \E a \in Present : a < k
          /\ \E b \in Present : b > k

\* C9: for any monotonic predicate, the n of find_key_range is the number of
\* stored keys the predicate classifies Match (0 when there are none).
C9_RangeCount ==
    \A p \in Preds :
        btree_find_key_range(heap, root, p).n = Cardinality(Matching(p))

\* C10: for any monotonic predicate, find_key_range returns None exactly when
\* no stored key is classified Match; otherwise start is the smallest and end
\* the largest stored key classified Match.
C10_RangeBounds ==
    \A p \in Preds :
        \A r \in {btree_find_key_range(heap, root, p)}, m \in {Matching(p)} :
           /\ r.some <=> m # {}
           /\ r.some => /\ r.start \in m /\ r.end \in m
                         /\ \A k \in m : r.start <= k /\ k <= r.end

\* C10's case: a tree of three levels, mutated since it was built, and a
\* predicate whose matches span several subtrees without covering the tree.
C10_Witness ==
    /\ Height(heap, root) >= 3
    /\ script = <<>>
    /\ ops >= 1
    /\ \E p \in Preds :
          \E r \in {btree_find_key_range(heap, root, p)} :
             /\ r.some
             /\ r.start > MinOf(Present)
             /\ r.end < MaxOf(Present)
             /\ \E k \in RootKeys : r.start < k /\ k < r.end

\* The predicate that classifies every key Match.
AllMatch == [lo |-> 1, hi |-> (CHOOSE m \in AllKeys : \A k \in AllKeys : k <= m) + 1]

\* C11: on a non-empty tree, find_key_range with the predicate that always
\* returns Match yields n = the tree's count = the number of stored keys,
\* start = the smallest stored key and end = the largest stored key.
C11_RangeTotality ==
    root # NULL =>
        \A r \in {btree_find_key_range(heap, root, AllMatch)} :
           /\ r.some
           /\ r.n = btree_count(heap, root)
           /\ r.n = Cardinality(Present)
           /\ r.start = MinOf(Present)
           /\ r.end = MaxOf(Present)

\* C12: inserting a key that is already present replaces its value and
\* changes nothing else: the keys, the cached counts and the shape of the tree
\* stay as they were, and every other key keeps its value.
C12_Upsert ==
    \A k \in Present, v \in Vals :
        \A r \in {btree_insert(heap, root, snap, k, v, cfg)} :
           /\ ShapeOf(r.h, r.root) = ShapeOf(heap, root)
           /\ \A j \in Keys :
                 btree_get_by_key(r.h, r.root, j)
                   = IF j = k THEN Some(v) ELSE btree_get_by_key(heap, root, j)

\* C12's case: a tree of two levels where a separator of the root and a key
\* of a leaf are each overwritten with a value they do not hold.
C12_Witness ==
    /\ IsInternalRoot
    /\ \E k \in RootKeys, v \in Vals :
          /\ map[k] # Some(v)
          /\ \E r \in {btree_insert(heap, root, snap, k, v, cfg)} :
                btree_get_by_key(r.h, r.root, k) = Some(v)
    /\ \E k \in Present \ RootKeys, v \in Vals :
          /\ map[k] # Some(v)
          /\ \E r \in {btree_insert(heap, root, snap, k, v, cfg)} :
                btree_get_by_key(r.h, r.root, k) = Some(v)

\* C13: once every inserted key has been deleted, in whatever order, the
\* tree is empty (no root) and get_by_key returns none for every key.
C13_Emptying ==
    (script = <<>> /\ Present = {}) =>
        /\ root = NULL
        /\ \A k \in AllKeys : btree_get_by_key(heap, root, k) = None

\* C13's case: a tree of SnapKeys keys has been emptied by SnapKeys deletes.
C13_Witness ==
    /\ script = <<>>
    /\ ops = SnapKeys
    /\ Present = {}
    /\ root = NULL

\* C14: no insert or delete_by_key on the original handle changes or frees a
\* node that the snapshot reaches, and a read of the snapshot taken node by
\* node with mutations of the original in between ends with the result of the
\* same read run at once.
C14_NoInPlaceMutation ==
    [][/\ \A id \in Reach(heap, snap) : id \in DOMAIN heap' /\ heap'[id] = heap[id]
       /\ (rd' # NoRead /\ rd'.stack = <<>>) => rd'.acc = rd'.want]_vars

\* A range read of a snapshot of three levels is over, a mutation fell between
\* two of its steps, and the original handle now answers the read differently.
C14_Witness ==
    /\ rd # NoRead
    /\ rd.stack = <<>>
    /\ rd.during
    /\ rd.kind = "find_key_range"
    /\ rd.acc = rd.want
    /\ rd.acc.some
    /\ Len(heap[snap].children) > 0
    /\ btree_find_key_range(heap, root, rd.arg) # rd.acc

\* The nodes Node::insert visits for key, from node n down.
RECURSIVE InsertPath(_, _, _)
InsertPath(h, n, key) ==
    LET bs == binary_search(h[n].key_values, key)
    IN IF bs.found \/ is_leaf(h[n]) THEN {n}
       ELSE {n} \cup InsertPath(h, h[n].children[bs.idx], key)

\* The nodes take_right_most visits, from node n down.
RECURSIVE RightMostPath(_, _)
RightMostPath(h, n) ==
    IF is_leaf(h[n]) THEN {n}
    ELSE {n} \cup RightMostPath(h, h[n].children[Len(h[n].children)])

\* The nodes Node::delete_by_key visits for key, from node n down.
RECURSIVE DeletePath(_, _, _)
DeletePath(h, n, key) ==
    LET bs == binary_search(h[n].key_values, key)
    IN IF is_leaf(h[n]) THEN {n}
       ELSE IF bs.found THEN {n} \cup RightMostPath(h, h[n].children[bs.idx])
       ELSE {n} \cup DeletePath(h, h[n].children[bs.idx], key)

\* The children of the nodes of a path that stand next to the child on the path.
PathSiblings(h, path) ==
    {s \in DOMAIN h : \E p \in path : \E i, j \in 1..Len(h[p].children) :
        /\ h[p].children[i] \in path
        /\ h[p].children[j] = s
        /\ s \notin path
        /\ (j = i + 1 \/ j = i - 1)}

\* Between the version before (heap, root, shared with the duplicate handle)
\* and the version after (h2, root2): the nodes before are unmodified, those
\* off the path, but for the excepted ones, are nodes of the version after,
\* and no node made by the operation is a copy of one of them.
SharedOffPath(h2, root2, path, excepted) ==
    /\ \A id \in Reach(heap, root) : id \in DOMAIN h2 /\ h2[id] = heap[id]
    /\ \A id \in Reach(heap, root) \ path :
          /\ id \in Reach(h2, root2) \/ id \in excepted
          /\ \A new \in Reach(h2, root2) \ Reach(heap, root) : h2[new] # heap[id]

Duplicated == snap # NULL /\ snap = root

\* C15: after a handle is duplicated, one insert on the original leaves every
\* node off the path of the key shared with the new version and unmodified;
\* one delete_by_key does the same, but for the siblings next to the path
\* that rebalance replaces by nodes built afresh (merge, rotations), whose
\* own subtrees stay shared.
C15_PathCopying ==
    Duplicated =>
        /\ \A k \in 1..(obs.n + 1), v \in Vals :
           \A r \in {btree_insert(heap, root, snap, k, v, cfg)} :
              SharedOffPath(r.h, r.root, InsertPath(heap, root, k), {})
        /\ \A k \in 1..(obs.n + 1) :
           \A r \in {btree_delete_by_key(heap, root, snap, k, cfg)},
              path \in {DeletePath(heap, root, k)} :
              r.ok /\ SharedOffPath(r.h, r.root, path, PathSiblings(heap, path))

\* The statement without the exception: one delete_by_key too leaves every
\* node off the path shared with the new version.
C15_PathCopyingOriginal ==
    Duplicated =>
        \A k \in 1..(obs.n + 1) :
           \A r \in {btree_delete_by_key(heap, root, snap, k, cfg)} :
              r.ok /\ SharedOffPath(r.h, r.root, DeletePath(heap, root, k), {})

\* A duplicated tree of three levels on which an insert copies the three
\* nodes of its path and shares the others, and on which a delete_by_key
\* replaces a sibling of the path and shares the sibling's children.
C15_Witness ==
    /\ Duplicated
    /\ Height(heap, root) >= 3
    /\ \E k \in 1..(obs.n + 1) :
       \E r \in {btree_insert(heap, root, snap, k, 2, cfg)} :
          /\ Cardinality(Reach(r.h, r.root) \ Reach(heap, root)) = 3
          /\ Cardinality(Reach(r.h, r.root) \cap Reach(heap, root)) >= 4
    /\ \E k \in 1..(obs.n + 1) :
       \E r \in {btree_delete_by_key(heap, root, snap, k, cfg)},
          path \in {DeletePath(heap, root, k)} :
          \E s \in PathSiblings(heap, path) :
             /\ s \notin Reach(r.h, r.root)
             /\ heap[s].children # <<>>
             /\ \A i \in 1..Len(heap[s].children) : heap[s].children[i] \in Reach(r.h, r.root)

\* C16: no operation reaches a failing step: no delete_by_key taken has
\* panicked, none that can be called now panics, every insert leaves a tree,
\* and every read ends with a result of its type.
C16_Totality ==
    /\ ok
    /\ \A k \in Keys :
          /\ \A r \in {btree_delete_by_key(heap, root, snap, k, cfg)} : r.ok
          /\ \A v \in Vals : \A r \in {btree_insert(heap, root, snap, k, v, cfg)} :
                r.root \in DOMAIN r.h
          /\ btree_get_by_key(heap, root, k) \in {None} \cup {Some(v) : v \in Vals}
    /\ \A i \in 0..(MaxKey + MaxStale) :
          btree_get_by_offset(heap, root, i) \in {None} \cup {Some(<<k, v>>) : k \in Keys, v \in Vals}
    /\ \A p \in PredsOver(MaxKey) :
          \A r \in {btree_find_key_range(heap, root, p)} :
             /\ r.some \in BOOLEAN
             /\ r.n \in 0..(MaxKey + MaxStale)

\* A tree with an internal root whose delete_by_key of a separator takes the
\* right-most entry of a leaf with a single entry, and merges.
C16_Witness ==
    /\ IsInternalRoot
    /\ \E k \in RootKeys :
          /\ Len(heap[heap[root].children[binary_search(heap[root].key_values, k).idx]].key_values) = 1
          /\ \E r \in {btree_delete_by_key(heap, root, snap, k, cfg)} :
                r.ok /\ r.ret # None /\ Cardinality(DOMAIN r.h) < Cardinality(DOMAIN heap)

\* The tree of the scenario is built and nothing is deleted yet.
ScenarioBuilt == cfg = ScenarioDegree /\ script = <<>> /\ ops = 0

\* C17: with max_degree 4, after the inserts of 12 down to 1 with the values
\* key * 100, every non-root node has between 1 and 3 entries and
\* get_by_key(7) returns 700.
C17_ScenarioBuild ==
    ScenarioBuilt =>
        /\ \A n \in NonRootNodes :
              1 <= Len(heap[n].key_values) /\ Len(heap[n].key_values) <= 3
        /\ btree_get_by_key(heap, root, 7) = Some(700)

\* The built tree holds the twelve keys on more than one level.
C17_Witness ==
    /\ ScenarioBuilt
    /\ Present = 1..12
    /\ Cardinality(NonRootNodes) >= 4
    /\ btree_count(heap, root) = 12

\* The keys 1 to j - 1 of the scenario have been deleted in ascending order.
ScenarioDeleted(j) ==
    /\ cfg = ScenarioDegree
    /\ script = <<>>
    /\ ops = j - 1
    /\ Present = j..ScenarioKeys

\* C18: with max_degree 4, from the tree of the scenario, the deletes of
\* 1, 2, ..., 12 in ascending order return (k, k * 100) each, and after the
\* twelfth the tree is empty.
C18_ScenarioDrain ==
    \A j \in 1..ScenarioKeys :
        ScenarioDeleted(j) =>
            \A r \in {btree_delete_by_key(heap, root, snap, j, cfg)} :
               /\ r.ok
               /\ r.ret = Some(<<j, j * 100>>)
               /\ j = ScenarioKeys =>
                     /\ r.root = NULL
                     /\ \A k \in 1..ScenarioKeys : btree_get_by_key(r.h, r.root, k) = None

\* The eleven first deletes are done and the last key is stored alone.
C18_Witness ==
    /\ ScenarioDeleted(ScenarioKeys)
    /\ root # NULL
    /\ btree_get_by_key(heap, root, ScenarioKeys) = Some(ScenarioKeys * 100)

\* The keys stored under node n.
RECURSIVE KeysUnder(_, _)
KeysUnder(h, n) ==
    {h[n].key_values[i][1] : i \in 1..Len(h[n].key_values)}
    \cup UNION {KeysUnder(h, h[n].children[i]) : i \in 1..Len(h[n].children)}

\* Node n is ordered: its keys ascend strictly, and the keys under its i-th
\* child lie strictly between its separators i - 1 and i.
Ordered(h, n) ==
    LET kvs == h[n].key_values
    IN /\ \A i \in 1..(Len(kvs) - 1) : kvs[i][1] < kvs[i + 1][1]
       /\ \A i \in 1..Len(h[n].children) : \A k \in KeysUnder(h, h[n].children[i]) :
             /\ i > 1 /\ i - 1 <= Len(kvs) => kvs[i - 1][1] < k
             /\ i <= Len(kvs) => k < kvs[i][1]

\* What deleting key from the tree under node n leads to first: "separator"
\* when an internal node holds the key, "absent" when no node does, "leaf"
\* when n is a leaf, and otherwise the branch rebalance takes at the parent
\* of the leaf that holds the key.
RECURSIVE RebalanceFor(_, _, _, _)
RebalanceFor(h, n, key, M) ==
    IF is_leaf(h[n]) THEN "leaf"
    ELSE LET bs == binary_search(h[n].key_values, key)
             child == h[n].children[bs.idx]
             cbs == binary_search(h[child].key_values, key)
             kv_idx == IF bs.idx = Len(h[n].children) THEN bs.idx - 1 ELSE bs.idx
         IN IF bs.found THEN "separator"
            ELSE IF ~is_leaf(h[child]) THEN RebalanceFor(h, child, key, M)
            ELSE IF ~cbs.found THEN "absent"
            ELSE rebalance_case([h EXCEPT ![child].key_values = RemoveAt(@, cbs.idx)],
                                n, kv_idx, M)

\* C19: the tree is a search tree with unique keys: every node is ordered.
C19_SearchTree == \A n \in Nodes : Ordered(heap, n)

\* A tree of three levels or more from which deletes lead to a replaced
\* separator, a merge, a rotate left and a rotate right, each leaving an
\* ordered tree that holds the other keys.
C19_Witness ==
    /\ script = <<>>
    /\ Height(heap, root) >= 3
    /\ \A c \in {"separator", "merge", "rotate_left", "rotate_right"} :
          \E k \in Present :
             /\ RebalanceFor(heap, root, k, cfg) = c
             /\ \E r \in {btree_delete_by_key(heap, root, snap, k, cfg)} :
                   /\ r.ok
                   /\ KeysUnder(r.h, r.root) = Present \ {k}
                   /\ \A n \in Reach(r.h, r.root) : Ordered(r.h, n)

\* C20: every node of the tree is a leaf without children or an internal
\* node with one child more than it has entries.
C20_ChildrenPerEntries ==
    \A n \in Nodes :
        \/ Len(heap[n].children) = 0
        \/ Len(heap[n].children) = Len(heap[n].key_values) + 1

\* A tree of three levels or more from which an insert splits a leaf, and
\* from which a delete_by_key merges and another rotates, each leaving
\* internal nodes with one child more than entries.
C20_Witness ==
    /\ script = <<>>
    /\ Height(heap, root) >= 3
    /\ \E k \in DeepKeySet \ Present :
       \E r \in {btree_insert(heap, root, snap, k, 1, cfg)} :
          /\ Cardinality(Reach(r.h, r.root)) > Cardinality(Nodes)
          /\ \A n \in Reach(r.h, r.root) :
                Len(r.h[n].children) \in {0, Len(r.h[n].key_values) + 1}
    /\ \A c \in {"merge", "rotate_left"} :
          \E k \in Present :
             /\ RebalanceFor(heap, root, k, cfg) = c
             /\ \E r \in {btree_delete_by_key(heap, root, snap, k, cfg)} :
                   /\ r.ok
                   /\ \E n \in Reach(r.h, r.root) : Len(r.h[n].children) > 0
                   /\ \A n \in Reach(r.h, r.root) :
                         Len(r.h[n].children) \in {0, Len(r.h[n].key_values) + 1}

\* The depths of the leaves under node n, n itself at depth d.
RECURSIVE LeafDepths(_, _, _)
LeafDepths(h, n, d) ==
    IF n = NULL THEN {}
    ELSE IF is_leaf(h[n]) THEN {d}
    ELSE UNION {LeafDepths(h, h[n].children[i], d + 1) : i \in 1..Len(h[n].children)}

\* All leaves under rt are at one depth.
Balanced(h, rt) == Cardinality(LeafDepths(h, rt, 1)) <= 1

\* C21: all leaves of the tree are at the same depth after every step, and
\* a step changes the height by one at most: only a step that stores a new
\* key raises it, only a step that removes a key lowers it.
C21_UniformDepth ==
    [][/\ Balanced(heap', root')
       /\ Height(heap', root') - Height(heap, root) \in {-1, 0, 1}
       /\ Height(heap', root') > Height(heap, root) =>
              \E k \in AllKeys : map[k] = None /\ map'[k] # None
       /\ Height(heap', root') < Height(heap, root) =>
              \E k \in AllKeys : map[k] # None /\ map'[k] = None]_vars

\* A tree of three levels, reached by a split of the root, that a
\* delete_by_key makes lower by promoting the root's sole child, and in
\* which an insert splits a node below the root; all stay balanced.
C21_Witness ==
    /\ Height(heap, root) = 3
    /\ Len(heap[root].key_values) = 1
    /\ Balanced(heap, root)
    /\ \E k \in Present :
       \E r \in {btree_delete_by_key(heap, root, snap, k, cfg)} :
          Height(r.h, r.root) = 2 /\ Balanced(r.h, r.root)
    /\ \E k \in DeepKeySet \ Present :
       \E r \in {btree_insert(heap, root, snap, k, 1, cfg)} :
          /\ Height(r.h, r.root) = 3
          /\ Cardinality(Reach(r.h, r.root)) > Cardinality(Nodes)
          /\ Balanced(r.h, r.root)

\* The separator branch of delete_by_key on node n, up to the call of
\* rebalance: the entry taken from the child at idx stands at idx.
SeparatorStep(h, owners, n, idx, M) ==
    With(make_mut_child(h, owners, n, idx), LAMBDA m :
    With(take_right_most(m.h, owners, m.id, M), LAMBDA t :
      [h     |-> IF t.ok THEN [t.h EXCEPT ![n].key_values[idx] = t.kv] ELSE t.h,
       taken |-> t.kv,
       prev  |-> h[n].key_values[idx],
       ok    |-> t.ok]))

\* The separators of the root with their positions.
RootSeparators ==
    IF root = NULL \/ ~IsInternalRoot THEN {}
    ELSE {[key |-> heap[root].key_values[i][1], idx |-> i] :
             i \in 1..Len(heap[root].key_values)}

C23_TreeInsert ==
    [][\A k \in AllKeys : (map'[k] # None /\ map'[k] # map[k]) =>
         \A r \in {btree_insert(heap, root, snap, k, map'[k][1], cfg)} :
           /\ TreeOf(heap', root') = TreeOf(r.h, r.root)
           /\ IF root = NULL
              THEN /\ heap'[root'].key_values = <<<<k, map'[k][1]>>>>
                   /\ is_leaf(heap'[root'])
                   /\ heap'[root'].count = 1
              ELSE \A m \in {make_mut(heap, <<root, snap>>, root)} :
                   \A ni \in {node_insert(m.h, <<m.id, snap>>, m.id, k, map'[k][1], cfg)} :
                     IF ni.splited
                     THEN /\ heap'[root'].key_values = <<ni.new_k_v>>
                          /\ Len(heap'[root'].children) = 2
                          /\ TreeOf(heap', heap'[root'].children[1]) = TreeOf(ni.h, ni.new_l)
                          /\ TreeOf(heap', heap'[root'].children[2]) = TreeOf(ni.h, ni.new_r)
                          /\ \A a \in KeysUnder(heap', heap'[root'].children[1]) :
                                a < ni.new_k_v[1]
                          /\ \A b \in KeysUnder(heap', heap'[root'].children[2]) :
                                ni.new_k_v[1] < b
                          /\ heap'[root'].count = Cardinality({j \in AllKeys : map'[j] # None})
                          /\ Height(heap', root') = Height(heap, root) + 1
                     ELSE /\ r.root = m.id
                          /\ (snap = NULL => r.root = root)
                          /\ Height(heap', root') = Height(heap, root)
                          /\ Len(heap'[root'].key_values) = Len(ni.h[m.id].key_values)]_vars

\* The elements of a sequence.
Range(s) == {s[i] : i \in 1..Len(s)}

\* The entries node n holds when Node::insert reaches its split test, read
\* from the result r of the call: the two halves around the promoted entry
\* when it split, its own entries when it did not.
EntriesAtSplitTest(r, n) ==
    IF r.splited
    THEN r.h[r.new_l].key_values \o <<r.new_k_v>> \o r.h[r.new_r].key_values
    ELSE r.h[n].key_values

RebalanceCalls(n, key) ==
    IF is_leaf(heap[n]) THEN {}
    ELSE IF key \notin KeysUnder(heap, n)
    THEN LET child_idx == Len(heap[n].children)
         IN With(make_mut_child(heap, <<root, snap>>, n, child_idx), LAMBDA m :
            With(take_right_most(m.h, <<root, snap>>, m.id, cfg), LAMBDA t :
              IF t.ok THEN {[h |-> t.h, child_idx |-> child_idx]} ELSE {}))
    ELSE With(binary_search(heap[n].key_values, key), LAMBDA bs :
           IF bs.found
           THEN With(SeparatorStep(heap, <<root, snap>>, n, bs.idx, cfg), LAMBDA st :
                  IF st.ok THEN {[h |-> st.h, child_idx |-> bs.idx]} ELSE {})
           ELSE With(make_mut_child(heap, <<root, snap>>, n, bs.idx), LAMBDA m :
                With(delete_by_key(m.h, <<root, snap>>, m.id, key, cfg), LAMBDA d :
                  IF d.ok /\ d.ret # None
                  THEN {[h |-> [d.h EXCEPT ![n].count = @ - 1], child_idx |-> bs.idx]}
                  ELSE {})))

\* C25: rebalance(child_idx) inspects the pair (children[child_idx - 1],
\* children[child_idx]) when child_idx is the last child and
\* (children[child_idx], children[child_idx + 1]) otherwise, and merges
\* exactly when both inspected siblings have at most min_key_value entries.
\* The merged node's entries are left.entries ++ [separator] ++
\* right.entries and its children left.children ++ right.children; it takes
\* the left sibling's slot, and the parent loses exactly that separator and
\* the right sibling's slot.
C25_Merge ==
    [][\A k \in AllKeys : (map[k] # None /\ map'[k] = None) =>
         \A n \in DeletePath(heap, root, k) :
         \A c \in RebalanceCalls(n, k) :
         \A b \in {rebalance(c.h, n, c.child_idx, cfg)} :
         \A p \in {IF c.child_idx = Len(c.h[n].children)
                   THEN c.child_idx - 1 ELSE c.child_idx} :
           /\ b.ok
           /\ p >= 1
           /\ \A left \in {c.h[c.h[n].children[p]]} :
              \A right \in {c.h[c.h[n].children[p + 1]]} :
                /\ Len(b.h[n].children) = Len(c.h[n].children) - 1
                      <=> (/\ Len(left.key_values) <= min_key_value(cfg)
                           /\ Len(right.key_values) <= min_key_value(cfg))
                /\ Len(b.h[n].children) >= Len(c.h[n].children) - 1
                /\ Len(b.h[n].children) = Len(c.h[n].children) - 1 =>
                     \A merged \in {b.h[b.h[n].children[p]]} :
                       /\ merged.key_values =
                             left.key_values \o <<c.h[n].key_values[p]>> \o right.key_values
                       /\ merged.children = left.children \o right.children
                       /\ b.h[n].children[p] \notin Range(c.h[n].children)
                       /\ b.h[n].key_values = RemoveAt(c.h[n].key_values, p)
                       /\ \A i \in 1..Len(b.h[n].children) :
                            /\ i < p => b.h[n].children[i] = c.h[n].children[i]
                            /\ i > p => b.h[n].children[i] = c.h[n].children[i + 1]]_vars

\* A tree of three levels or more from which one delete_by_key merges two
\* leaves, another merges two internal nodes, and a third rebalances
\* without merging.
C25_Witness ==
    /\ script = <<>>
    /\ root # NULL
    /\ Height(heap, root) >= 3
    /\ \E k \in Present : \E n \in DeletePath(heap, root, k) : \E c \in RebalanceCalls(n, k) :
          /\ is_leaf(c.h[c.h[n].children[1]])
          /\ Len(rebalance(c.h, n, c.child_idx, cfg).h[n].children) < Len(c.h[n].children)
    /\ \E k \in Present : \E n \in DeletePath(heap, root, k) : \E c \in RebalanceCalls(n, k) :
          /\ ~is_leaf(c.h[c.h[n].children[1]])
          /\ Len(rebalance(c.h, n, c.child_idx, cfg).h[n].children) < Len(c.h[n].children)
    /\ \E k \in Present : \E n \in DeletePath(heap, root, k) : \E c \in RebalanceCalls(n, k) :
          Len(rebalance(c.h, n, c.child_idx, cfg).h[n].children) = Len(c.h[n].children)

\* The entries under node n, in order.
RECURSIVE InOrder(_, _)
InOrder(h, n) ==
    IF is_leaf(h[n]) THEN h[n].key_values
    ELSE LET F[i \in 0..Len(h[n].key_values)] ==
               IF i = 0 THEN InOrder(h, h[n].children[1])
               ELSE F[i - 1] \o <<h[n].key_values[i]>> \o InOrder(h, h[n].children[i + 1])
         IN F[Len(h[n].key_values)]

\* The count of node n is the number of its entries plus the counts of its children.
CountFromChildren(h, n) ==
    h[n].count = Len(h[n].key_values)
                 + SumSeq([i \in 1..Len(h[n].children) |-> h[h[n].children[i]].count])

\* The parent n keeps its number of entries and children over a rotation
\* around separator p, all its entries but p and all its children but the
\* two siblings, and the entries under it keep their order; the two rebuilt
\* siblings are fresh nodes with counts made from their own entries and
\* their children's counts.
RotationFrame(h, h2, n, p) ==
    /\ Len(h2[n].key_values) = Len(h[n].key_values)
    /\ Len(h2[n].children) = Len(h[n].children)
    /\ \A i \in 1..Len(h[n].key_values) : i # p => h2[n].key_values[i] = h[n].key_values[i]
    /\ \A i \in 1..Len(h[n].children) :
          i \notin {p, p + 1} => h2[n].children[i] = h[n].children[i]
    /\ InOrder(h2, n) = InOrder(h, n)
    /\ h2[n].children[p] \notin DOMAIN h
    /\ h2[n].children[p + 1] \notin DOMAIN h
    /\ CountFromChildren(h2, h2[n].children[p])
    /\ CountFromChildren(h2, h2[n].children[p + 1])

\* C26: when rebalance does not merge and one inspected sibling is
\* under-size, a rotation moves exactly one entry through the parent.  In
\* rotate-left the left sibling gains the old separator as its last entry
\* (and the right sibling's first child, if internal) and the right
\* sibling's first entry becomes the separator; rotate-right is the mirror
\* image.  The parent's number of entries and children, the in-order sequence
\* of the entries of the parent's subtree, and the counts of the two rebuilt
\* siblings (own entries plus children's counts) are consistent afterwards.
C26_Rotation ==
    [][\A k \in AllKeys : (map[k] # None /\ map'[k] = None) =>
         \A n \in DeletePath(heap, root, k) :
         \A c \in RebalanceCalls(n, k) :
         \A b \in {rebalance(c.h, n, c.child_idx, cfg).h} :
         \A p \in {IF c.child_idx = Len(c.h[n].children)
                   THEN c.child_idx - 1 ELSE c.child_idx} :
         \A left \in {c.h[c.h[n].children[p]]} :
         \A right \in {c.h[c.h[n].children[p + 1]]} :
         \A sep \in {c.h[n].key_values[p]} :
           \/ /\ Len(left.key_values) <= min_key_value(cfg)
              /\ Len(right.key_values) <= min_key_value(cfg)
           \/ IF Len(left.key_values) < min_key_value(cfg)
              THEN \A l2 \in {b[b[n].children[p]]} : \A r2 \in {b[b[n].children[p + 1]]} :
                     /\ l2.key_values = Append(left.key_values, sep)
                     /\ r2.key_values = Tail(right.key_values)
                     /\ b[n].key_values[p] = right.key_values[1]
                     /\ l2.children = IF is_leaf(left) THEN <<>>
                                      ELSE Append(left.children, right.children[1])
                     /\ r2.children = IF is_leaf(left) THEN <<>> ELSE Tail(right.children)
                     /\ RotationFrame(c.h, b, n, p)
              ELSE IF Len(right.key_values) < min_key_value(cfg)
              THEN \A l2 \in {b[b[n].children[p]]} : \A r2 \in {b[b[n].children[p + 1]]} :
                     /\ l2.key_values = SubSeq(left.key_values, 1, Len(left.key_values) - 1)
                     /\ r2.key_values = <<sep>> \o right.key_values
                     /\ b[n].key_values[p] = left.key_values[Len(left.key_values)]
                     /\ l2.children = IF is_leaf(left) THEN <<>>
                                      ELSE SubSeq(left.children, 1, Len(left.children) - 1)
                     /\ r2.children = IF is_leaf(left) THEN <<>>
                                      ELSE <<left.children[Len(left.children)]>>
                                           \o right.children
                     /\ RotationFrame(c.h, b, n, p)
              ELSE b = c.h]_vars

\* A tree of three levels or more from which one delete_by_key rotates left
\* between two leaves, another rotates right between two leaves, and one
\* rotates between two internal nodes.
C26_Witness ==
    /\ script = <<>>
    /\ root # NULL
    /\ Height(heap, root) >= 3
    /\ \A want \in {"rotate_left", "rotate_right"} :
          \E k \in Present : \E n \in DeletePath(heap, root, k) :
          \E c \in RebalanceCalls(n, k) :
             /\ is_leaf(c.h[c.h[n].children[1]])
             /\ rebalance_case(c.h, n, IF c.child_idx = Len(c.h[n].children)
                                       THEN c.child_idx - 1 ELSE c.child_idx, cfg) = want
    /\ \E k \in Present : \E n \in DeletePath(heap, root, k) :
       \E c \in RebalanceCalls(n, k) :
          /\ ~is_leaf(c.h[c.h[n].children[1]])
          /\ rebalance_case(c.h, n, IF c.child_idx = Len(c.h[n].children)
                                    THEN c.child_idx - 1 ELSE c.child_idx, cfg)
                \in {"rotate_left", "rotate_right"}

\* C27: after every completed delete_by_key on a tree, either the tree is
\* empty or its root holds at least one entry.  A root left with no entries
\* and a single child by a merge is replaced by that child, the height
\* decreases by one, and the promoted child's count equals the number of
\* stored keys.
C27_RootShrink ==
    [][\A k \in AllKeys : (map[k] # None /\ map'[k] = None) =>
         /\ root' = NULL \/ Len(heap'[root'].key_values) >= 1
         /\ root' = NULL <=> \A j \in AllKeys : map'[j] = None
         /\ \A m \in {make_mut(heap, <<root, snap>>, root)} :
            \A d \in {delete_by_key(m.h, <<m.id, snap>>, m.id, k, cfg)} :
              /\ d.ok
              /\ IF d.h[m.id].key_values = <<>> /\ ~is_leaf(d.h[m.id])
                 THEN /\ Len(d.h[m.id].children) = 1
                      /\ TreeOf(heap', root') = TreeOf(d.h, d.h[m.id].children[1])
                      /\ Height(heap', root') = Height(heap, root) - 1
                      /\ heap'[root'].count = Cardinality({j \in AllKeys : map'[j] # None})
                 ELSE root' # NULL =>
                      /\ TreeOf(heap', root') = TreeOf(d.h, m.id)
                      /\ Height(heap', root') = Height(heap, root)]_vars

=============================================================================
